---- MODULE Spec2Model ----
(***************************************************************************)
(* A model of the toy-language compiler: the driver (main.py), the code    *)
(* generator (codegen.py) over the llvmlite IR builder it drives, and the  *)
(* lexer and parser (lexer.py, parser.py).                                 *)
(*                                                                         *)
(* Spec      : the driver pipeline; the IR stage lowers, node by node, a   *)
(*             top-level sequence chosen on the way (lowering is a single  *)
(*             depth-first pass in source order, so choosing each node     *)
(*             when it is visited ranges over all ASTs within the bounds). *)
(* SpecParse : the lexer and the parser applied to bounded source texts.   *)
(***************************************************************************)
EXTENDS Integers, Sequences, FiniteSets, TLC

\* ------------------------------------------------------------------ bounds
\* AST nodes (FunctionDef or statement) lowered in one compilation.
MaxNodes == 5
\* Words of the operand/operator part of a source text (SpecParse).
MaxWords == 3

\* ------------------------------------------------------------- IR entities
\* Values (llvmlite ir.Value objects, identified by the id of their
\* instruction); NoneV is Python's None.
NoneV == [k |-> "None", n |-> 0]
ConstV(n) == [k |-> "const", n |-> n]
InstV(id) == [k |-> "inst", n |-> id]
ArgV(i) == [k |-> "arg", n |-> i]
FuncV(i) == [k |-> "func", n |-> i]

\* An instruction: opcode, identity, operand values, target blocks, and the
\* variable or callee name it carries.
Instr(op, id, name, vals, tgts) ==
    [op |-> op, id |-> id, name |-> name, vals |-> vals, tgts |-> tgts]

Terminators == {"br", "cbr", "ret"}

\* ir.Block: instructions and the terminator attribute (0 is None).
NewBlock(label) == [label |-> label, instructions |-> <<>>, terminator |-> 0]

\* Block.is_terminated
IsTerminated(blk) == blk.terminator # 0

\* IRBuilder: the block it stands in and the integer anchor into that
\* block's instruction list.  NoBuilder is self.builder = None.
NoBuilder == [fn |-> 0, blk |-> 0, anchor |-> 0]
Builder(fn, blk, anchor) == [fn |-> fn, blk |-> blk, anchor |-> anchor]

VarNames == {"x"}
FuncNames == {"main", "f"}

\* list.insert(anchor, x) with a 0-based anchor (clamped as Python does)
InsertAt(s, a, x) ==
    LET i == IF a > Len(s) THEN Len(s) ELSE a
    IN  SubSeq(s, 1, i) \o <<x>> \o SubSeq(s, i + 1, Len(s))

\* CodeGen.__init__: an empty module, no builder, no function, no variables
NewCodeGen ==
    [funcs |-> <<>>,
     functions |-> [g \in FuncNames |-> 0],
     builder |-> NoBuilder,
     func |-> 0,
     variables |-> [n \in VarNames |-> 0],
     nid |-> 0,
     err |-> "none"]

Raise(c, e) == IF c.err = "none" THEN [c EXCEPT !.err = e] ELSE c

\* IRBuilder.position_at_start(block) on self.builder
PositionAtStart(c, b) ==
    IF c.err # "none" THEN c
    ELSE IF c.builder = NoBuilder THEN Raise(c, "AttributeError")
    ELSE [c EXCEPT !.builder = Builder(c.func, b, 0)]

\* Function.append_basic_block on self.func; the new block's index is
\* Len(blocks) + 1 of the function before the call.
AppendBasicBlock(c, label) ==
    IF c.err # "none" THEN c
    ELSE IF c.func = 0 THEN Raise(c, "AttributeError")
    ELSE [c EXCEPT !.funcs[c.func].blocks = Append(@, NewBlock(label))]

\* IRBuilder._insert through self.builder: list.insert at the anchor, then
\* the anchor moves one on.  The new instruction's id is c.nid + 1.
Insert(c, op, name, vals, tgts) ==
    IF c.err # "none" THEN c
    ELSE IF c.builder = NoBuilder THEN Raise(c, "AttributeError")
    ELSE LET b == c.builder
             ins == Instr(op, c.nid + 1, name, vals, tgts)
         IN  [c EXCEPT !.funcs[b.fn].blocks[b.blk].instructions =
                           InsertAt(@, b.anchor, ins),
                       !.builder.anchor = @ + 1,
                       !.nid = @ + 1]

\* IRBuilder._set_terminator: asserts the block has no terminator yet
SetTerminator(c, op, vals, tgts) ==
    IF c.err # "none" THEN c
    ELSE IF c.builder = NoBuilder THEN Raise(c, "AttributeError")
    ELSE IF IsTerminated(c.funcs[c.builder.fn].blocks[c.builder.blk])
         THEN Raise(c, "AssertionError")
    ELSE LET b == c.builder
             d == Insert(c, op, "", vals, tgts)
         IN  [d EXCEPT !.funcs[b.fn].blocks[b.blk].terminator = d.nid]

\* CodeGen._create_entry_block_alloca: a fresh builder at the start of the
\* entry block inserts the alloca at index 0; self.builder is not touched,
\* so its anchor keeps its old value.
CreateEntryBlockAlloca(c, name) ==
    IF c.err # "none" THEN c
    ELSE IF c.func = 0 THEN Raise(c, "AttributeError")
    ELSE [c EXCEPT !.funcs[c.func].blocks[1].instructions =
                       InsertAt(@, 0, Instr("alloca", c.nid + 1, name, <<>>, <<>>)),
                   !.nid = @ + 1]

\* Module.get_global: self.globals[name]; the module's globals are its
\* functions.
HasGlobal(c, name) == \E i \in 1..Len(c.funcs) : c.funcs[i].name = name

\* ------------------------------------------------------------ AST (toy_ast)
Number(v) == [t |-> "Number", value |-> v]
Variable(name) == [t |-> "Variable", name |-> name]
BinaryOp(l, op, r) == [t |-> "BinaryOp", left |-> l, operator |-> op, right |-> r]
FunctionCall(name, args) == [t |-> "FunctionCall", name |-> name, arguments |-> args]

Assignment(name, value) == [t |-> "Assignment", name |-> name, value |-> value]
FunctionDef(name, args, body) ==
    [t |-> "FunctionDef", name |-> name, args |-> args, body |-> body]
\* else_body: a list of statements, or None when the source has no else
NoBody == [some |-> FALSE, body |-> <<>>]
Body(stmts) == [some |-> TRUE, body |-> stmts]
If(condition, then_body, else_body) ==
    [t |-> "If", condition |-> condition, then_body |-> then_body,
     else_body |-> else_body]
While(condition, body) == [t |-> "While", condition |-> condition, body |-> body]
Return(value) == [t |-> "Return", value |-> value]

\* The nodes the lowered programs are built from: the expressions of
\* expression statements, the right-hand sides of assignments, the
\* conditions and return values, and the parameter lists of function
\* definitions.
Exprs == << Number(1), FunctionCall("f", <<Variable("x")>>) >>
Operands == << Number(1), Variable("x") >>
Conditions == << Number(1) >>
ArgLists == << <<>>, <<"x">> >>

\* --------------------------------------------- CodeGen.generate_code: expressions
RECURSIVE GenExpr(_, _)
RECURSIVE GenArgs(_, _, _)

\* [self.generate_code(arg) for arg in node.arguments], left to right
GenArgs(args, c, vs) ==
    IF args = <<>> THEN [c |-> c, vs |-> vs]
    ELSE LET r == GenExpr(Head(args), c)
         IN  GenArgs(Tail(args), r.c, Append(vs, r.v))

\* generate_code for Number, BinaryOp, Variable and FunctionCall: the
\* CodeGen after the call and the value returned.
GenExpr(node, c) ==
    IF c.err # "none" THEN [c |-> c, v |-> NoneV]
    ELSE CASE node.t = "Number" -> [c |-> c, v |-> ConstV(node.value)]
         [] node.t = "BinaryOp" ->
              LET l == GenExpr(node.left, c)
                  r == GenExpr(node.right, l.c)
              IN  IF node.operator \in {"+", "-", "*", "/"}
                  THEN LET d == Insert(r.c, node.operator, "", <<l.v, r.v>>, <<>>)
                       IN  [c |-> d, v |-> InstV(d.nid)]
                  ELSE IF node.operator \in {"<", ">", "=="}
                  THEN LET d == Insert(r.c, "fcmp", node.operator, <<l.v, r.v>>, <<>>)
                           e == Insert(d, "uitofp", "", <<InstV(d.nid)>>, <<>>)
                       IN  [c |-> e, v |-> InstV(e.nid)]
                  ELSE [c |-> r.c, v |-> NoneV]
         [] node.t = "Variable" ->
              IF c.variables[node.name] = 0
              THEN [c |-> Raise(c, "UnknownVariable"), v |-> NoneV]
              ELSE LET d == Insert(c, "load", node.name,
                                   <<InstV(c.variables[node.name])>>, <<>>)
                   IN  [c |-> d, v |-> InstV(d.nid)]
         [] node.t = "FunctionCall" ->
              IF ~HasGlobal(c, node.name)
              THEN [c |-> Raise(c, "KeyError"), v |-> NoneV]
              ELSE LET a == GenArgs(node.arguments, c, <<>>)
                       d == Insert(a.c, "call", node.name, a.vs, <<>>)
                   IN  [c |-> d, v |-> InstV(d.nid)]

\* generate_code for Assignment
GenAssignment(name, value, c) ==
    LET c1 == IF c.variables[name] = 0
              THEN LET a == CreateEntryBlockAlloca(c, name)
                   IN  IF a.err # "none" THEN a
                       ELSE [a EXCEPT !.variables[name] = a.nid]
              ELSE c
        r  == GenExpr(value, c1)
        d  == Insert(r.c, "store", name, <<r.v, InstV(r.c.variables[name])>>, <<>>)
    IN  [c |-> d, v |-> r.v]

\* generate_code for Return
GenReturn(value, c) ==
    LET r == GenExpr(value, c)
    IN  [c |-> SetTerminator(r.c, "ret", <<r.v>>, <<>>), v |-> NoneV]

\* ------------------------------------- CodeGen.generate_code: If, While, FunctionDef
\* The number of blocks of the current function (0 when there is none).
NumBlocks(c) == IF c.func = 0 THEN 0 ELSE Len(c.funcs[c.func].blocks)

\* If, up to the start of the then-body: the condition, its comparison with
\* 0.0, the three new blocks, the conditional branch, the move to then.
IfHead(condition, c) ==
    LET r  == GenExpr(condition, c)
        c1 == Insert(r.c, "fcmp", "!=", <<r.v, ConstV(0)>>, <<>>)
        nb == NumBlocks(c1)
        c2 == AppendBasicBlock(AppendBasicBlock(AppendBasicBlock(c1, "then"), "else"),
                               "ifcont")
        c3 == SetTerminator(c2, "cbr", <<InstV(c1.nid)>>, <<nb + 1, nb + 2>>)
    IN  PositionAtStart(c3, nb + 1)

\* "if not then_bb.is_terminated: self.builder.branch(merge_bb)": the test
\* reads the branch's first block bb, the branch goes where the builder stands.
BranchToMerge(c, bb, merge) ==
    IF c.err # "none" THEN c
    ELSE IF ~IsTerminated(c.funcs[c.func].blocks[bb])
         THEN SetTerminator(c, "br", <<>>, <<merge>>)
         ELSE c

\* If, after the then-body: the fallthrough branch and the move to else.
IfThenTail(fr, c) == PositionAtStart(BranchToMerge(c, fr.then_bb, fr.merge_bb), fr.else_bb)

\* "if then_val is not None and else_val is not None"
NeedsPhi(then_val, else_val) == then_val # NoneV /\ else_val # NoneV

\* If, after the else-body: the fallthrough branch, the move to merge, the phi.
IfElseTail(fr, c) ==
    LET c1 == BranchToMerge(c, fr.else_bb, fr.merge_bb)
        c2 == PositionAtStart(c1, fr.merge_bb)
    IN  IF NeedsPhi(fr.then_val, fr.else_val)
        THEN LET d == Insert(c2, "phi", "iftmp", <<fr.then_val, fr.else_val>>,
                             <<fr.then_bb, fr.else_bb>>)
             IN  [c |-> d, v |-> InstV(d.nid)]
        ELSE [c |-> c2, v |-> NoneV]

\* While, up to the start of the body.
WhileHead(condition, c) ==
    LET nb == NumBlocks(c)
        c1 == AppendBasicBlock(AppendBasicBlock(AppendBasicBlock(c, "while.cond"),
                               "while.body"), "while.end")
        c2 == SetTerminator(c1, "br", <<>>, <<nb + 1>>)
        c3 == PositionAtStart(c2, nb + 1)
        r  == GenExpr(condition, c3)
        c4 == Insert(r.c, "fcmp", "!=", <<r.v, ConstV(0)>>, <<>>)
        c5 == SetTerminator(c4, "cbr", <<InstV(c4.nid)>>, <<nb + 2, nb + 3>>)
    IN  PositionAtStart(c5, nb + 2)

\* While, after the body: the back edge and the move to end.
WhileTail(fr, c) ==
    PositionAtStart(SetTerminator(c, "br", <<>>, <<fr.cond_bb>>), fr.end_bb)

RECURSIVE AllocaArgs(_, _)
\* "for arg, arg_name in zip(func.args, node.args)": an alloca per parameter
AllocaArgs(args, c) ==
    IF args = <<>> THEN c
    ELSE LET a == CreateEntryBlockAlloca(c, Head(args))
         IN  AllocaArgs(Tail(args), [a EXCEPT !.variables[Head(args)] = a.nid])

RECURSIVE StoreArgs(_, _, _)
\* the second zip loop: store parameter i into the slot bound to its name
StoreArgs(args, i, c) ==
    IF i > Len(args) THEN c
    ELSE StoreArgs(args, i + 1,
                   Insert(c, "store", args[i],
                          <<ArgV(i), InstV(c.variables[args[i]])>>, <<>>))

\* FunctionDef, up to the start of the body.  ir.Function refuses a name the
\* module already has; the function is in the module and in self.functions
\* before its body is lowered.
FuncHead(name, args, c) ==
    IF HasGlobal(c, name) THEN Raise(c, "DuplicatedNameError")
    ELSE LET fi == Len(c.funcs) + 1
             c1 == [c EXCEPT !.funcs = Append(@, [name |-> name, args |-> args,
                                                  blocks |-> <<NewBlock("entry")>>]),
                             !.functions[name] = fi,
                             !.func = fi,
                             !.variables = [n \in VarNames |-> 0]]
             c2 == AllocaArgs(args, c1)
             c3 == [c2 EXCEPT !.builder =
                        Builder(fi, 1, Len(c2.funcs[fi].blocks[1].instructions))]
         IN  StoreArgs(args, 1, c3)

\* "if not entry_block.is_terminated: self.builder.ret(0.0)"
DefaultReturn(c) ==
    IF c.err # "none" THEN c
    ELSE IF ~IsTerminated(c.funcs[c.func].blocks[1])
         THEN SetTerminator(c, "ret", <<ConstV(0)>>, <<>>)
         ELSE c

\* A restore that leaves out "self.variables = old_variables".
FuncTail_VariablesKept(fr, c) ==
    LET d == DefaultReturn(c)
    IN  IF d.err # "none" THEN d
        ELSE [d EXCEPT !.builder = fr.old_builder, !.func = fr.old_func]

\* FunctionDef, after the body: the default return and the restore.
FuncTail(fr, c) ==
    LET d == DefaultReturn(c)
    IN  IF d.err # "none" THEN d
        ELSE [d EXCEPT !.builder = fr.old_builder,
                       !.func = fr.old_func,
                       !.variables = fr.old_variables]

\* main_func.blocks[-1]
LastBlock(c, fi) == Len(c.funcs[fi].blocks)

\* create_ir after the loop over the nodes: "Make sure we have a return in main"
FinalizeMain(c) ==
    IF c.functions["main"] = 0 THEN c
    ELSE LET fi == c.functions["main"]
             lb == LastBlock(c, fi)
         IN  IF IsTerminated(c.funcs[fi].blocks[lb]) THEN c
             ELSE SetTerminator(
                      [c EXCEPT !.builder =
                           Builder(fi, lb, Len(c.funcs[fi].blocks[lb].instructions))],
                      "ret", <<ConstV(0)>>, <<>>)

\* ------------------------------------------------------------------- Lexer
Token(type, value, line, column) ==
    [type |-> type, value |-> value, line |-> line, column |-> column]

\* text[pos], or "" (falsy, as None is) past the end
CharAt(txt, pos) == IF pos >= Len(txt) THEN "" ELSE SubSeq(txt, pos + 1, pos + 1)

\* str.isspace, str.isdigit, str.isalpha on one ASCII character
Spaces == {" ", "\t", "\n", "\r", "\f"}
Digits == <<"0", "1", "2", "3", "4", "5", "6", "7", "8", "9">>
Letters ==
    {"a", "b", "c", "d", "e", "f", "g", "h", "i", "j", "k", "l", "m", "n", "o",
     "p", "q", "r", "s", "t", "u", "v", "w", "x", "y", "z",
     "A", "B", "C", "D", "E", "F", "G", "H", "I", "J", "K", "L", "M", "N", "O",
     "P", "Q", "R", "S", "T", "U", "V", "W", "X", "Y", "Z"}
IsSpace(ch) == ch \in Spaces
IsDigit(ch) == \E i \in 1..Len(Digits) : Digits[i] = ch
IsAlpha(ch) == ch \in Letters

\* Lexer.__init__
NewLexer(txt) ==
    [pos |-> 0, current_char |-> CharAt(txt, 0), line |-> 1, column |-> 1]

\* Lexer.advance
Advance(lx, txt) ==
    LET ch == CharAt(txt, lx.pos + 1)
    IN  [pos |-> lx.pos + 1,
         current_char |-> ch,
         line |-> IF ch = "\n" THEN lx.line + 1 ELSE lx.line,
         column |-> IF ch = "" THEN lx.column
                    ELSE IF ch = "\n" THEN 1 ELSE lx.column + 1]

RECURSIVE SkipWhitespace(_, _)
RECURSIVE ScanNumber(_, _, _)
RECURSIVE ScanIdentifier(_, _, _)

\* Lexer.skip_whitespace
SkipWhitespace(lx, txt) ==
    IF lx.current_char # "" /\ IsSpace(lx.current_char)
    THEN SkipWhitespace(Advance(lx, txt), txt)
    ELSE lx

\* the loop of Lexer.number: digits and dots
ScanNumber(lx, txt, result) ==
    IF lx.current_char # "" /\ (IsDigit(lx.current_char) \/ lx.current_char = ".")
    THEN ScanNumber(Advance(lx, txt), txt, result \o lx.current_char)
    ELSE [lx |-> lx, result |-> result]

\* the loop of Lexer.identifier: letters, digits and underscores
ScanIdentifier(lx, txt, result) ==
    IF lx.current_char # ""
       /\ (IsAlpha(lx.current_char) \/ IsDigit(lx.current_char)
           \/ lx.current_char = "_")
    THEN ScanIdentifier(Advance(lx, txt), txt, result \o lx.current_char)
    ELSE [lx |-> lx, result |-> result]

Keywords == {"def", "return", "if", "else", "while"}
OperatorChars == {"+", "-", "*", "/", "<", ">", "="}

\* the single-character tokens other than operators
PunctuationType(ch) ==
    CASE ch = "(" -> "LPAREN"
      [] ch = ")" -> "RPAREN"
      [] ch = "{" -> "LBRACE"
      [] ch = "}" -> "RBRACE"
      [] ch = ";" -> "SEMICOLON"
      [] ch = "," -> "COMMA"
      [] OTHER -> "none"

\* Lexer.get_next_token: the lexer after the call and the token returned,
\* or the error raised
GetNextToken(lx0, txt) ==
    LET lx == SkipWhitespace(lx0, txt)
        ch == lx.current_char
    IN  IF ch = ""
        THEN [lx |-> lx, token |-> Token("EOF", "", lx.line, lx.column), err |-> ""]
        ELSE IF IsDigit(ch)
        THEN LET r == ScanNumber(lx, txt, "")
             IN  [lx |-> r.lx,
                  token |-> Token("NUMBER", r.result, r.lx.line, lx.column),
                  err |-> ""]
        ELSE IF IsAlpha(ch) \/ ch = "_"
        THEN LET r == ScanIdentifier(lx, txt, "")
             IN  [lx |-> r.lx,
                  token |-> Token(IF r.result \in Keywords THEN "KEYWORD"
                                  ELSE "IDENTIFIER",
                                  r.result, r.lx.line, lx.column),
                  err |-> ""]
        ELSE IF ch \in OperatorChars
        THEN [lx |-> Advance(lx, txt),
              token |-> Token("OPERATOR", ch, lx.line, lx.column), err |-> ""]
        ELSE IF PunctuationType(ch) # "none"
        THEN [lx |-> Advance(lx, txt),
              token |-> Token(PunctuationType(ch), ch, lx.line, lx.column),
              err |-> ""]
        ELSE [lx |-> lx, token |-> Token("EOF", "", lx.line, lx.column),
              err |-> "Invalid character"]

\* ------------------------------------------------------------------ Parser
\* self.current_token: tokens[pos], or None past the end
NoToken == Token("None", "", 0, 0)
CurrentToken(ts, p) == IF p < Len(ts) THEN ts[p + 1] ELSE NoToken

\* What a parsing method did: it returned node with the parser at pos, or
\* it raised err.
Ok(nd, p) == [ok |-> TRUE, node |-> nd, pos |-> p, err |-> ""]
Fail(msg, p) == [ok |-> FALSE, node |-> NoBody, pos |-> p, err |-> msg]

\* Parser.eat
Eat(ts, p, type) ==
    IF CurrentToken(ts, p).type = type THEN Ok(NoBody, p + 1)
    ELSE Fail("Expected " \o type, p)

\* float(token.value) on the digits and dots Lexer.number collected: the
\* number m / 10^k in lowest terms of ten (a whole number is the integer
\* itself); more than one dot is a ValueError.  Binary rounding is left out.
DigitValue(ch) == (CHOOSE i \in 1..Len(Digits) : Digits[i] = ch) - 1

RECURSIVE ScanFloat(_, _, _)
ScanFloat(str, i, acc) ==
    IF i > Len(str) THEN acc
    ELSE LET ch == SubSeq(str, i, i)
         IN  IF ch = "."
             THEN ScanFloat(str, i + 1, [acc EXCEPT !.dots = @ + 1])
             ELSE ScanFloat(str, i + 1,
                            [acc EXCEPT !.m = 10 * @ + DigitValue(ch),
                                        !.k = IF acc.dots > 0 THEN @ + 1 ELSE @])

RECURSIVE Normalize(_, _)
Normalize(m, k) ==
    IF k > 0 /\ m % 10 = 0 THEN Normalize(m \div 10, k - 1)
    ELSE IF k = 0 THEN m ELSE [m |-> m, k |-> k]

FloatOf(str) ==
    LET acc == ScanFloat(str, 1, [m |-> 0, k |-> 0, dots |-> 0])
    IN  IF acc.dots > 1 THEN [ok |-> FALSE, value |-> 0]
        ELSE [ok |-> TRUE, value |-> Normalize(acc.m, acc.k)]

\* A method goes on with what a call returned (Rest), or the call's
\* exception leaves the method.
Then(r, Rest(_)) == IF r.ok THEN Rest(r) ELSE r

RECURSIVE Statement(_, _)
RECURSIVE Statements(_, _, _)
RECURSIVE Expr(_, _)
RECURSIVE ExprLoop(_, _, _)
RECURSIVE Term(_, _)
RECURSIVE TermLoop(_, _, _)
RECURSIVE Factor(_, _)
RECURSIVE Arguments(_, _, _)

\* Parser.expr: term, then the loop over + - < > ==
ExprOperators == {"+", "-", "<", ">", "=="}
Expr(ts, p) == Then(Term(ts, p), LAMBDA r : ExprLoop(ts, r.pos, r.node))

ExprLoop(ts, p, nd) ==
    LET tok == CurrentToken(ts, p)
    IN  IF tok.type = "OPERATOR" /\ tok.value \in ExprOperators
        THEN Then(Term(ts, p + 1),
                  LAMBDA r : ExprLoop(ts, r.pos, BinaryOp(nd, tok.value, r.node)))
        ELSE Ok(nd, p)

\* Parser.term: factor, then the loop over * /
TermOperators == {"*", "/"}
Term(ts, p) == Then(Factor(ts, p), LAMBDA r : TermLoop(ts, r.pos, r.node))

TermLoop(ts, p, nd) ==
    LET tok == CurrentToken(ts, p)
    IN  IF tok.type = "OPERATOR" /\ tok.value \in TermOperators
        THEN Then(Factor(ts, p + 1),
                  LAMBDA r : TermLoop(ts, r.pos, BinaryOp(nd, tok.value, r.node)))
        ELSE Ok(nd, p)

\* Parser.factor, the call arguments after the first: "while COMMA: eat,
\* args.append(self.expr())"
Arguments(ts, p, args) ==
    IF p >= Len(ts) THEN Fail("AttributeError", p)
    ELSE IF ts[p + 1].type = "COMMA"
    THEN Then(Expr(ts, p + 1),
              LAMBDA r : Arguments(ts, r.pos, Append(args, r.node)))
    ELSE Ok(args, p)

\* Parser.factor, the call arguments: none before RPAREN, or expr and the
\* loop above
CallArguments(ts, p) ==
    IF p >= Len(ts) THEN Fail("AttributeError", p)
    ELSE IF ts[p + 1].type # "RPAREN"
    THEN Then(Expr(ts, p), LAMBDA r : Arguments(ts, r.pos, <<r.node>>))
    ELSE Ok(<<>>, p)

\* Parser.factor
Factor(ts, p) ==
    LET token == CurrentToken(ts, p)
    IN  IF p >= Len(ts) THEN Fail("AttributeError", p)
        ELSE IF token.type = "NUMBER"
        THEN LET f == FloatOf(token.value)
             IN  IF f.ok THEN Ok(Number(f.value), p + 1)
                 ELSE Fail("ValueError", p + 1)
        ELSE IF token.type = "IDENTIFIER"
        THEN IF CurrentToken(ts, p + 1).type = "LPAREN"
             THEN Then(CallArguments(ts, p + 2), LAMBDA args :
                  Then(Eat(ts, args.pos, "RPAREN"), LAMBDA close :
                  Ok(FunctionCall(token.value, args.node), close.pos)))
             ELSE Ok(Variable(token.value), p + 1)
        ELSE IF token.type = "LPAREN"
        THEN Then(Expr(ts, p + 1), LAMBDA r :
             Then(Eat(ts, r.pos, "RPAREN"), LAMBDA close :
             Ok(r.node, close.pos)))
        ELSE Fail("Invalid factor", p)

\* "expr = self.expr(); self.eat(SEMICOLON); return expr", also the tail of
\* return_statement and assignment
ExprSemicolon(ts, p) ==
    Then(Expr(ts, p), LAMBDA r :
    Then(Eat(ts, r.pos, "SEMICOLON"), LAMBDA semi :
    Ok(r.node, semi.pos)))

\* "self.eat(LBRACE); body = []; while ...: body.append(self.statement());
\* self.eat(RBRACE)"
Braces(ts, p) ==
    Then(Eat(ts, p, "LBRACE"), LAMBDA open :
    Then(Statements(ts, open.pos, <<>>), LAMBDA body :
    Then(Eat(ts, body.pos, "RBRACE"), LAMBDA close :
    Ok(body.node, close.pos))))

\* "self.eat(KEYWORD); self.eat(LPAREN); condition = self.expr();
\* self.eat(RPAREN)" and the braces after it, of if_statement and
\* while_statement: the condition and the body
ConditionAndBody(ts, p) ==
    Then(Eat(ts, p + 1, "LPAREN"), LAMBDA open :
    Then(Expr(ts, open.pos), LAMBDA condition :
    Then(Eat(ts, condition.pos, "RPAREN"), LAMBDA close :
    Then(Braces(ts, close.pos), LAMBDA body :
    Ok([condition |-> condition.node, body |-> body.node], body.pos)))))

\* Parser.return_statement
ReturnStatement(ts, p) ==
    Then(ExprSemicolon(ts, p + 1), LAMBDA r : Ok(Return(r.node), r.pos))

\* Parser.if_statement, from the token after the then-body on
ElseBody(ts, head) ==
    LET tok == CurrentToken(ts, head.pos)
    IN  IF tok.type = "KEYWORD" /\ tok.value = "else"
        THEN Then(Braces(ts, head.pos + 1), LAMBDA else_body :
             Ok(If(head.node.condition, head.node.body, Body(else_body.node)),
                else_body.pos))
        ELSE Ok(If(head.node.condition, head.node.body, NoBody), head.pos)

\* Parser.if_statement
IfStatement(ts, p) ==
    Then(ConditionAndBody(ts, p), LAMBDA head : ElseBody(ts, head))

\* Parser.while_statement
WhileStatement(ts, p) ==
    Then(ConditionAndBody(ts, p), LAMBDA head :
    Ok(While(head.node.condition, head.node.body), head.pos))

\* Parser.assignment: the identifier, any OPERATOR token, expr, SEMICOLON
AssignmentStatement(ts, p) ==
    Then(Eat(ts, p + 1, "OPERATOR"), LAMBDA op :
    Then(ExprSemicolon(ts, op.pos), LAMBDA r :
    Ok(Assignment(ts[p + 1].value, r.node), r.pos)))

\* Parser.statement
Statement(ts, p) ==
    LET tok == CurrentToken(ts, p)
    IN  IF p >= Len(ts) THEN Fail("Unexpected end of input", p)
        ELSE IF tok.type = "KEYWORD" /\ tok.value = "return"
        THEN ReturnStatement(ts, p)
        ELSE IF tok.type = "KEYWORD" /\ tok.value = "if" THEN IfStatement(ts, p)
        ELSE IF tok.type = "KEYWORD" /\ tok.value = "while"
        THEN WhileStatement(ts, p)
        ELSE IF tok.type = "IDENTIFIER"
        THEN IF p + 1 >= Len(ts) THEN Fail("IndexError", p)
             ELSE IF ts[p + 2].type = "OPERATOR" /\ ts[p + 2].value = "="
             THEN AssignmentStatement(ts, p)
             ELSE ExprSemicolon(ts, p)
        ELSE ExprSemicolon(ts, p)

Statements(ts, p, body) ==
    IF p < Len(ts) /\ ts[p + 1].type # "RBRACE"
    THEN Then(Statement(ts, p),
              LAMBDA r : Statements(ts, r.pos, Append(body, r.node)))
    ELSE Ok(body, p)

\* Parser.function_definition, the parameter loop: "while IDENTIFIER:
\* args.append; eat; if COMMA: eat"
RECURSIVE Parameters(_, _, _)
Parameters(ts, p, args) ==
    IF CurrentToken(ts, p).type = "IDENTIFIER"
    THEN IF p + 1 >= Len(ts) THEN Fail("AttributeError", p + 1)
         ELSE Parameters(ts, IF ts[p + 2].type = "COMMA" THEN p + 2 ELSE p + 1,
                         Append(args, ts[p + 1].value))
    ELSE Ok(args, p)

\* Parser.function_definition
FunctionDefinition(ts, p) ==
    LET name == CurrentToken(ts, p + 1)
    IN  IF name.type # "IDENTIFIER" THEN Fail("Expected function name", p + 1)
        ELSE Then(Eat(ts, p + 2, "LPAREN"), LAMBDA open :
             Then(Parameters(ts, open.pos, <<>>), LAMBDA args :
             Then(Eat(ts, args.pos, "RPAREN"), LAMBDA close :
             Then(Braces(ts, close.pos), LAMBDA body :
             Ok(FunctionDef(name.value, args.node, body.node), body.pos)))))

\* ------------------------------------------------------------------- state
VARIABLES
    pc,          \* where the driver stands
    cg,          \* the CodeGen instance (module, builder, func, variables, functions)
    stack,       \* the generate_code calls in progress, innermost last
    node,        \* the node, and the part of its handler, that ran last
    val,         \* what the last completed generate_code(stmt) returned
    nodes,       \* AST nodes lowered so far
    finished,    \* per function lowered, the block its body lowering ended in
    before,      \* per FunctionDef in progress, the context it started in
    mod,         \* the module the backend parsed from the printed IR
    started,     \* the stages begun, in order
    raisedAt,    \* the stage whose exception is propagating or was handled
    printed,     \* "Result:" lines printed
    exitStatus,  \* the status the process ended with (-1 while it runs)
    text,        \* the source text given to the Lexer
    lexer,       \* the Lexer: pos, current_char, line, column
    tokens,      \* the list tokenize() is building, then Parser.tokens
    parser,      \* the Parser: pos (current_token is tokens[pos])
    ast,         \* the list of nodes parse() is building
    phase,       \* "lex", "parse", then "done" or "error"
    error        \* the message of the exception raised, if any

vars == <<pc, cg, stack, node, val, nodes, finished, before, mod, started, raisedAt,
          printed, exitStatus, text, lexer, tokens, parser, ast, phase, error>>
driver == <<mod, started, printed, exitStatus>>
backend == <<pc, cg, stack, node, val, nodes, finished, before, mod, started,
             raisedAt, printed, exitStatus>>
frontend == <<text, lexer, tokens, parser, ast, phase, error>>

\* The stages of compile_and_run, in the order of its statements.
Stages == <<"lex", "parse", "ir", "verify", "jit", "invoke">>

\* A generate_code call in progress: its node kind and its local variables.
Frame(kind) ==
    [kind |-> kind, then_bb |-> 0, else_bb |-> 0, merge_bb |-> 0,
     then_val |-> NoneV, else_val |-> NoneV, has_else |-> FALSE,
     cond_bb |-> 0, body_bb |-> 0, end_bb |-> 0,
     entry_block |-> 0, old_builder |-> NoBuilder, old_func |-> 0,
     old_variables |-> [n \in VarNames |-> 0], n |-> 0]

Top == stack[Len(stack)]
Pop == SubSeq(stack, 1, Len(stack) - 1)

\* The node lowered last and the part of its handler that ran.
At(part, name, expr) == [part |-> part, name |-> name, expr |-> expr]
NoNode == At("none", "", Number(0))

\* The loops "for stmt in body: [x_val =] self.generate_code(stmt)": a call
\* returned v to the frame below it.
Returned(stk, v) ==
    IF stk = <<>> THEN stk
    ELSE LET fr == stk[Len(stk)]
         IN  [stk EXCEPT ![Len(stk)] =
                 [fr EXCEPT !.n = @ + 1,
                            !.then_val = IF fr.kind = "then" THEN v ELSE @,
                            !.else_val = IF fr.kind = "else" THEN v ELSE @]]

\* A statement may be lowered next: at top level, or inside a body that is
\* being iterated ("if node.else_body:" skips an absent or empty else-body).
InBody ==
    /\ pc = "ir"
    /\ nodes < MaxNodes
    /\ stack # <<>> => (Top.kind = "else" => Top.has_else)

\* An exception leaves generate_code and create_ir for the except clause of
\* compile_and_run; the half-built module is never read again.
Propagate(c) ==
    /\ cg' = [NewCodeGen EXCEPT !.err = c.err]
    /\ stack' = <<>>
    /\ val' = NoneV
    /\ nodes' = 0
    /\ finished' = <<>>
    /\ before' = <<>>
    /\ pc' = "raised"
    /\ raisedAt' = "ir"

\* A generate_code call that ran in one piece: it raised, or returned v.
Finish(r, stk) ==
    IF r.c.err # "none" THEN Propagate(r.c)
    ELSE /\ cg' = r.c
         /\ val' = r.v
         /\ stack' = Returned(stk, r.v)
         /\ UNCHANGED <<pc, raisedAt, nodes, finished, before>>

\* A generate_code call for a new node that ran in one piece.
FinishNode(r) ==
    IF r.c.err # "none" THEN Propagate(r.c)
    ELSE /\ cg' = r.c
         /\ val' = r.v
         /\ stack' = Returned(stack, r.v)
         /\ nodes' = nodes + 1
         /\ UNCHANGED <<pc, raisedAt, finished, before>>

\* The compilation context: the current function, the builder (its block
\* and its position in it) and the variable map.
Context(c) == [func |-> c.func, builder |-> c.builder, variables |-> c.variables]

\* A generate_code call that reached the start of a body: it raised, or
\* goes on in frame fr (a FunctionDef was entered in the context of cg).
Enter(c, fr) ==
    IF c.err # "none" THEN Propagate(c)
    ELSE /\ cg' = c
         /\ stack' = Append(stack, fr)
         /\ nodes' = nodes + 1
         /\ before' = IF fr.kind = "func" THEN Append(before, Context(cg))
                       ELSE before
         /\ UNCHANGED <<pc, raisedAt, val, finished>>

\* Parser.__init__
NewParser == [pos |-> 0]

\* The front end standing on the source text txt, before tokenize().
FrontEndOn(txt) ==
    /\ text = txt
    /\ lexer = NewLexer(txt)
    /\ tokens = <<>>
    /\ parser = NewParser
    /\ ast = <<>>
    /\ phase = "lex"
    /\ error = ""

\* The process at the start of main, nothing compiled yet.
DriverAtStart ==
    /\ pc = "start"
    /\ cg = NewCodeGen
    /\ stack = <<>>
    /\ node = NoNode
    /\ val = NoneV
    /\ nodes = 0
    /\ finished = <<>>
    /\ before = <<>>
    /\ mod = "none"
    /\ started = <<>>
    /\ raisedAt = "none"
    /\ printed = 0
    /\ exitStatus = -1

Init ==
    /\ FrontEndOn("")
    /\ DriverAtStart

\* ------------------------------------------------------- generate_code steps
\* an expression statement
LowerExpr ==
    /\ InBody
    /\ \E i \in 1..Len(Exprs) :
           /\ node' = At("Expr", "", Exprs[i])
           /\ FinishNode(GenExpr(Exprs[i], cg))
    /\ UNCHANGED driver
    /\ UNCHANGED frontend

LowerAssignment ==
    /\ InBody
    /\ \E name \in VarNames, i \in 1..Len(Operands) :
           /\ node' = At("Assignment", name, Operands[i])
           /\ FinishNode(GenAssignment(name, Operands[i], cg))
    /\ UNCHANGED driver
    /\ UNCHANGED frontend

LowerReturn ==
    /\ InBody
    /\ \E i \in 1..Len(Conditions) :
           /\ node' = At("Return", "", Conditions[i])
           /\ FinishNode(GenReturn(Conditions[i], cg))
    /\ UNCHANGED driver
    /\ UNCHANGED frontend

IfBegin ==
    /\ InBody
    /\ \E i \in 1..Len(Conditions) :
           LET nb == NumBlocks(cg)
           IN  /\ node' = At("IfBegin", "", Conditions[i])
               /\ Enter(IfHead(Conditions[i], cg),
                        [Frame("then") EXCEPT !.then_bb = nb + 1, !.else_bb = nb + 2,
                                              !.merge_bb = nb + 3])
    /\ UNCHANGED driver
    /\ UNCHANGED frontend

\* the then-body is done; node.else_body is absent or empty, or it has statements
IfThenEnd ==
    /\ pc = "ir" /\ stack # <<>> /\ Top.kind = "then"
    /\ node' = At("IfThenEnd", "", Number(0))
    /\ \E has_else \in BOOLEAN :
           /\ has_else => nodes < MaxNodes
           /\ LET c == IfThenTail(Top, cg)
              IN  IF c.err # "none" THEN Propagate(c)
                  ELSE /\ cg' = c
                       /\ stack' = [stack EXCEPT ![Len(stack)] =
                                       [Top EXCEPT !.kind = "else", !.n = 0,
                                                   !.has_else = has_else]]
                       /\ UNCHANGED <<pc, raisedAt, val, nodes, finished, before>>
    /\ UNCHANGED driver
    /\ UNCHANGED frontend

IfElseEnd ==
    /\ pc = "ir" /\ stack # <<>> /\ Top.kind = "else"
    /\ Top.has_else => Top.n > 0
    /\ node' = At("IfElseEnd", "", Number(0))
    /\ Finish(IfElseTail(Top, cg), Pop)
    /\ UNCHANGED driver
    /\ UNCHANGED frontend

WhileBegin ==
    /\ InBody
    /\ \E i \in 1..Len(Conditions) :
           LET nb == NumBlocks(cg)
           IN  /\ node' = At("WhileBegin", "", Conditions[i])
               /\ Enter(WhileHead(Conditions[i], cg),
                        [Frame("while") EXCEPT !.cond_bb = nb + 1, !.body_bb = nb + 2,
                                               !.end_bb = nb + 3])
    /\ UNCHANGED driver
    /\ UNCHANGED frontend

WhileEnd ==
    /\ pc = "ir" /\ stack # <<>> /\ Top.kind = "while"
    /\ node' = At("WhileEnd", "", Number(0))
    /\ Finish([c |-> WhileTail(Top, cg), v |-> NoneV], Pop)
    /\ UNCHANGED driver
    /\ UNCHANGED frontend

\* Parser.parse reads a FunctionDef at top level only.
FuncBegin ==
    /\ pc = "ir" /\ nodes < MaxNodes /\ stack = <<>>
    /\ \E name \in FuncNames, a \in 1..Len(ArgLists) :
           /\ node' = At("FuncBegin", name, Number(0))
           /\ Enter(FuncHead(name, ArgLists[a], cg),
                    [Frame("func") EXCEPT !.entry_block = 1,
                                          !.old_builder = cg.builder,
                                          !.old_func = cg.func,
                                          !.old_variables = cg.variables])
    /\ UNCHANGED driver
    /\ UNCHANGED frontend

FuncEnd ==
    /\ pc = "ir" /\ stack # <<>> /\ Top.kind = "func"
    /\ node' = At("FuncEnd", cg.funcs[cg.func].name, Number(0))
    /\ LET c == FuncTail(Top, cg)
       IN  IF c.err # "none" THEN Propagate(c)
           ELSE /\ cg' = c
                /\ val' = FuncV(cg.func)
                /\ stack' = Returned(Pop, FuncV(cg.func))
                /\ finished' = Append(finished, cg.builder.blk)
                /\ before' = SubSeq(before, 1, Len(before) - 1)
                /\ UNCHANGED <<pc, raisedAt, nodes>>
    /\ UNCHANGED driver
    /\ UNCHANGED frontend

\* ------------------------------------------------------------------ driver
\* A block as the backend reads it back from the printed module: its last
\* instruction, and only that one, is a terminator.
EndsInOneTerminator(blk) ==
    LET ins == blk.instructions
    IN  /\ ins # <<>>
        /\ ins[Len(ins)].op \in Terminators
        /\ \A i \in 1..(Len(ins) - 1) : ins[i].op \notin Terminators

\* What llvm.parse_assembly and mod.verify need at the least.
WellFormedIR(c) ==
    \A f \in 1..Len(c.funcs) : \A b \in 1..Len(c.funcs[f].blocks) :
        EndsInOneTerminator(c.funcs[f].blocks[b])

\* An except clause without the final "raise": compile_and_run returns None
\* and main goes on to print the result.
AfterCompileExcept_NoReraise == "print"

\* Where control goes from the except clause of compile_and_run: it ends in
\* "raise", so the exception goes on to the handlers of main.
AfterCompileExcept == "main_except"

\* The status main exits with from its handlers.
ErrorStatus == 1

\* A stage of compile_and_run ran: it returned and the next statement is at
\* nxt, or it raised.
StageEnds(stage, ok, nxt) ==
    /\ started' = Append(started, stage)
    /\ IF ok THEN pc' = nxt /\ UNCHANGED raisedAt
             ELSE pc' = "raised" /\ raisedAt' = stage

codegen == <<cg, stack, node, val, nodes, finished, before>>

\* main: "if len(sys.argv) != 2": usage and sys.exit(1)
Usage ==
    /\ pc = "start"
    /\ pc' = "exited"
    /\ exitStatus' = ErrorStatus
    /\ UNCHANGED <<codegen, mod, started, raisedAt, printed>>
    /\ UNCHANGED frontend

\* main: open(source_file) and read; a missing file (or another error of
\* open) is handled in main and ends the process.
OpenFile ==
    /\ pc = "start"
    /\ \E ok \in BOOLEAN :
           IF ok THEN pc' = "lex" /\ UNCHANGED raisedAt
                 ELSE pc' = "main_except" /\ raisedAt' = "open"
    /\ UNCHANGED <<codegen, mod, started, printed, exitStatus>>
    /\ UNCHANGED frontend

\* Lexer(source_code).tokenize()
Lex ==
    /\ pc = "lex"
    /\ \E ok \in BOOLEAN : StageEnds("lex", ok, "parse")
    /\ UNCHANGED <<codegen, mod, printed, exitStatus>>
    /\ UNCHANGED frontend

\* Parser(tokens).parse()
Parse ==
    /\ pc = "parse"
    /\ \E ok \in BOOLEAN : StageEnds("parse", ok, "codegen")
    /\ UNCHANGED <<codegen, mod, printed, exitStatus>>
    /\ UNCHANGED frontend

\* codegen = CodeGen(); codegen.create_ir(ast) is entered
CreateIRBegin ==
    /\ pc = "codegen"
    /\ started' = Append(started, "ir")
    /\ cg' = NewCodeGen
    /\ pc' = "ir"
    /\ UNCHANGED <<stack, node, val, nodes, finished, before, mod, raisedAt,
                   printed, exitStatus>>
    /\ UNCHANGED frontend

\* create_ir: the loop over the nodes is over; finalization of main; return
CreateIREnd ==
    /\ pc = "ir" /\ stack = <<>>
    /\ node' = At("CreateIREnd", "", Number(0))
    /\ LET c == FinalizeMain(cg)
       IN  IF c.err # "none" THEN Propagate(c)
           ELSE cg' = c /\ pc' = "verify"
                /\ UNCHANGED <<stack, val, nodes, finished, before, raisedAt>>
    /\ UNCHANGED driver
    /\ UNCHANGED frontend

\* mod = llvm.parse_assembly(llvm_ir); mod.verify(): succeeds on well-formed
\* IR only.  From here on the backend works on mod; the code generator is
\* not read again (the model forgets it).
Verify ==
    /\ pc = "verify"
    /\ \E ok \in BOOLEAN :
           /\ ok => WellFormedIR(cg)
           /\ StageEnds("verify", ok, "jit")
           /\ mod' = IF ~ok THEN "none"
                     ELSE IF cg.functions["main"] # 0 THEN "main" ELSE "nomain"
    /\ cg' = NewCodeGen /\ stack' = <<>> /\ val' = NoneV /\ nodes' = 0
    /\ finished' = <<>> /\ before' = <<>>
    /\ UNCHANGED <<node, printed, exitStatus>>
    /\ UNCHANGED frontend

\* the execution engine: add_module, finalize_object, get_function_address
Jit ==
    /\ pc = "jit"
    /\ \E ok \in BOOLEAN : StageEnds("jit", ok, "invoke")
    /\ UNCHANGED <<codegen, mod, printed, exitStatus>>
    /\ UNCHANGED frontend

\* cfunc(): the compiled main returns, or the call raises, or the process
\* dies in native code (there is no main to call when none was defined)
Invoke ==
    /\ pc = "invoke"
    /\ \E out \in {"returns", "raises", "dies"} :
           /\ out = "returns" => mod = "main"
           /\ IF out = "dies"
              THEN /\ started' = Append(started, "invoke")
                   /\ pc' = "killed"
                   /\ exitStatus' = 139
                   /\ UNCHANGED raisedAt
              ELSE /\ StageEnds("invoke", out = "returns", "print")
                   /\ UNCHANGED exitStatus
    /\ UNCHANGED <<codegen, mod, printed>>
    /\ UNCHANGED frontend

\* compile_and_run: "except Exception as e": print the error and the trace
CompileExcept ==
    /\ pc = "raised"
    /\ pc' = AfterCompileExcept
    /\ UNCHANGED <<codegen, mod, started, raisedAt, printed, exitStatus>>
    /\ UNCHANGED frontend

\* main: the except clauses: print the error, sys.exit(1)
MainExcept ==
    /\ pc = "main_except"
    /\ pc' = "exited"
    /\ exitStatus' = ErrorStatus
    /\ UNCHANGED <<codegen, mod, started, raisedAt, printed>>
    /\ UNCHANGED frontend

\* main: print(f"Result: {result}"), then the end of main
PrintResult ==
    /\ pc = "print"
    /\ printed' = printed + 1
    /\ pc' = "exited"
    /\ exitStatus' = 0
    /\ UNCHANGED <<codegen, mod, started, raisedAt>>
    /\ UNCHANGED frontend

Next ==
    \/ Usage \/ OpenFile \/ Lex \/ Parse \/ CreateIRBegin
    \/ LowerExpr \/ LowerAssignment \/ LowerReturn
    \/ IfBegin \/ IfThenEnd \/ IfElseEnd
    \/ WhileBegin \/ WhileEnd
    \/ FuncBegin \/ FuncEnd
    \/ CreateIREnd \/ Verify \/ Jit \/ Invoke
    \/ CompileExcept \/ MainExcept \/ PrintResult

Spec == Init /\ [][Next]_vars

\* ----------------------------------------- FunctionDef nodes inside bodies
\* generate_code lowers a FunctionDef wherever it meets one, "for stmt in
\* node.body: self.generate_code(stmt)" included.  Parser.statement builds
\* none, so such a node reaches create_ir only in an AST built directly.
NestedFuncBegin ==
    /\ InBody /\ stack # <<>>
    /\ \E name \in FuncNames, a \in 1..Len(ArgLists) :
           /\ node' = At("FuncBegin", name, Number(0))
           /\ Enter(FuncHead(name, ArgLists[a], cg),
                    [Frame("func") EXCEPT !.entry_block = 1,
                                          !.old_builder = cg.builder,
                                          !.old_func = cg.func,
                                          !.old_variables = cg.variables])
    /\ UNCHANGED driver
    /\ UNCHANGED frontend

NextNested == Next \/ NestedFuncBegin

SpecNested == Init /\ [][NextNested]_vars

\* ------------------------------------------------ the front end on source texts
\* The source texts read: an expression position (what stands before and
\* after the expression) around up to MaxWords operand and operator words,
\* written with or without blanks between them.
Words == <<"a", "1", "=", "==", "+", "*", "(", ")", ";">>
Separators == {"", " "}
Positions ==
    << [kind |-> "return", pre |-> "return ", suf |-> ";"],
       [kind |-> "if", pre |-> "if (", suf |-> ") { 1; } else { }"],
       [kind |-> "while", pre |-> "while (", suf |-> ") { }"],
       [kind |-> "argument", pre |-> "f(", suf |-> ");"],
       [kind |-> "assignment", pre |-> "x = ", suf |-> ";"],
       [kind |-> "statement", pre |-> "", suf |-> ";"],
       [kind |-> "def", pre |-> "def main(a, b) { return ", suf |-> "; }"] >>

RECURSIVE Join(_, _)
Join(ws, sep) ==
    IF ws = <<>> THEN ""
    ELSE IF Len(ws) = 1 THEN Words[ws[1]]
    ELSE Words[ws[1]] \o sep \o Join(Tail(ws), sep)

InPosition(i, str) == Positions[i].pre \o str \o Positions[i].suf

Sources ==
    { InPosition(i, Join(ws, sep)) :
          i \in 1..Len(Positions),
          ws \in UNION { [1..n -> 1..Len(Words)] : n \in 0..MaxWords },
          sep \in Separators }

InitParse ==
    /\ \E txt \in Sources : FrontEndOn(txt)
    /\ DriverAtStart

\* Lexer.tokenize, one turn of its loop: get_next_token, append, stop at
\* EOF (then Parser(tokens) is constructed); an exception ends the stage
TokenizeStep ==
    /\ phase = "lex"
    /\ LET r == GetNextToken(lexer, text)
       IN  IF r.err # ""
           THEN /\ phase' = "error"
                /\ error' = r.err
                /\ UNCHANGED <<lexer, tokens>>
           ELSE /\ lexer' = r.lx
                /\ tokens' = Append(tokens, r.token)
                /\ phase' = IF r.token.type = "EOF" THEN "parse" ELSE "lex"
                /\ UNCHANGED error
    /\ UNCHANGED <<text, parser, ast, backend>>

\* Parser.parse, one turn of its loop: a function definition at "def", a
\* statement otherwise
ParseStep ==
    /\ phase = "parse"
    /\ CurrentToken(tokens, parser.pos).type \notin {"EOF", "None"}
    /\ LET tok == CurrentToken(tokens, parser.pos)
           r == IF tok.type = "KEYWORD" /\ tok.value = "def"
                THEN FunctionDefinition(tokens, parser.pos)
                ELSE Statement(tokens, parser.pos)
       IN  IF r.ok
           THEN /\ ast' = Append(ast, r.node)
                /\ parser' = [pos |-> r.pos]
                /\ UNCHANGED <<phase, error>>
           ELSE /\ phase' = "error"
                /\ error' = r.err
                /\ UNCHANGED <<ast, parser>>
    /\ UNCHANGED <<text, lexer, tokens, backend>>

\* Parser.parse: the loop ends at EOF and the list of nodes is returned
ParseEnd ==
    /\ phase = "parse"
    /\ CurrentToken(tokens, parser.pos).type \in {"EOF", "None"}
    /\ phase' = "done"
    /\ UNCHANGED <<text, lexer, tokens, parser, ast, error, backend>>

NextParse == TokenizeStep \/ ParseStep \/ ParseEnd

SpecParse == InitParse /\ [][NextParse]_vars

\* ------------------------------------------------------------------ claims
Blk(c, f, b) == c.funcs[f].blocks[b]

TerminatorCount(blk) ==
    Cardinality({i \in DOMAIN blk.instructions : blk.instructions[i].op \in Terminators})

TerminatorOf(blk) ==
    blk.instructions[CHOOSE i \in DOMAIN blk.instructions :
                         blk.instructions[i].id = blk.terminator]

BranchesTo(blk, m) ==
    IsTerminated(blk) /\ TerminatorOf(blk).op = "br" /\ TerminatorOf(blk).tgts = <<m>>

Returns(blk) == IsTerminated(blk) /\ TerminatorOf(blk).op = "ret"

IsPrefix(s, t) == Len(s) <= Len(t) /\ \A i \in 1..Len(s) : s[i] = t[i]

\* C1: when create_ir has returned without raising, every block of every
\* function of the module has a terminator, and holds exactly one.
C1_EveryBlockTerminatedOnce ==
    pc = "verify" =>
        \A f \in 1..Len(cg.funcs) : \A b \in 1..Len(cg.funcs[f].blocks) :
            IsTerminated(Blk(cg, f, b)) /\ TerminatorCount(Blk(cg, f, b)) = 1

\* C2: when create_ir returns for a sequence that defines main, the block in
\* which lowering of main's body finished is terminated by a return, and
\* finalization left every block that was already terminated as it was.
C2_MainEndsInReturn ==
    [][(pc = "ir" /\ pc' = "verify" /\ cg.functions["main"] # 0) =>
          /\ Returns(Blk(cg', cg.functions["main"], finished[cg.functions["main"]]))
          /\ \A f \in 1..Len(cg.funcs) : \A b \in 1..Len(cg.funcs[f].blocks) :
                 IsTerminated(Blk(cg, f, b)) => Blk(cg', f, b) = Blk(cg, f, b)]_vars

\* The variable the node reads where its lowering certainly reaches the read:
\* the right-hand side of an assignment, or the argument of a call whose
\* callee resolves.
ReadsVariable(nd, c) ==
    \/ nd.part = "Assignment" /\ nd.expr.t = "Variable"
    \/ /\ nd.part = "Expr" /\ nd.expr.t = "FunctionCall"
       /\ HasGlobal(c, nd.expr.name)
       /\ nd.expr.arguments # <<>> /\ nd.expr.arguments[1].t = "Variable"

ReadName(nd) ==
    IF nd.expr.t = "Variable" THEN nd.expr.name ELSE nd.expr.arguments[1].name

\* n is a parameter of the current function, or a store to n has been emitted
\* in it.
ParamOrStored(c, n) ==
    \/ \E i \in DOMAIN c.funcs[c.func].args : c.funcs[c.func].args[i] = n
    \/ \E b \in DOMAIN c.funcs[c.func].blocks :
           \E i \in DOMAIN c.funcs[c.func].blocks[b].instructions :
               LET ins == c.funcs[c.func].blocks[b].instructions[i]
               IN  ins.op = "store" /\ ins.name = n

LoadEmitted(c, d, n) ==
    \E b \in DOMAIN d.funcs[c.func].blocks :
        \E i \in DOMAIN d.funcs[c.func].blocks[b].instructions :
            LET ins == d.funcs[c.func].blocks[b].instructions[i]
            IN  ins.op = "load" /\ ins.name = n /\ ins.id > c.nid

\* C3: inside a function, lowering a read of n raises the unknown-variable
\* error when n is no parameter and no store to n was emitted before, and
\* emits a load of n otherwise.
C3_ReadBeforeStoreFails ==
    [][(pc = "ir" /\ cg.func # 0 /\ ReadsVariable(node', cg)) =>
          IF ParamOrStored(cg, ReadName(node'))
          THEN pc' = "ir" /\ LoadEmitted(cg, cg', ReadName(node'))
          ELSE pc' = "raised" /\ cg'.err = "UnknownVariable"]_vars

\* C4: a call to g resolves exactly when lowering of a FunctionDef g has
\* started before (the module then holds g); otherwise compilation is
\* aborted with the unknown-function error.
C4_CallResolvesIffDefined ==
    [][(pc = "ir" /\ node'.part = "Expr" /\ node'.expr.t = "FunctionCall") =>
          IF HasGlobal(cg, node'.expr.name)
          THEN ~(pc' = "raised" /\ cg'.err \in {"UnknownFunction", "KeyError"})
          ELSE pc' = "raised" /\ cg'.err = "UnknownFunction"]_vars

\* The operand expressions written in the source texts, and their nodes.
OperandTexts == <<"a", "1">>
OperandNodes == <<Variable("a"), Number(1)>>

\* The node parse() is to return for expression e in a position.
NodeAround(kind, e) ==
    CASE kind = "return" -> Return(e)
      [] kind = "if" -> If(e, <<Number(1)>>, Body(<<>>))
      [] kind = "while" -> While(e, <<>>)
      [] kind = "argument" -> FunctionCall("f", <<e>>)
      [] kind = "assignment" -> Assignment("x", e)
      [] kind = "statement" -> e
      [] kind = "def" -> FunctionDef("main", <<"a", "b">>, <<Return(e)>>)

\* The front end is through with the text: parse() returned or a stage raised.
FrontEndOver == phase \in {"done", "error"}

\* C5: for operands a and b, the text "a == b" in an expression position (a
\* return value, an if or while condition, a call argument, an assignment
\* right-hand side) is tokenized and parsed without error into
\* BinaryOp(a, "==", b) in that position, and a statement-initial identifier
\* followed by a single "=" is parsed as an Assignment.
C5_EqualityParsedAsBinaryOp ==
    FrontEndOver =>
        \A x, y \in 1..Len(OperandTexts), sep \in Separators :
            /\ \A i \in 1..Len(Positions) :
                   (/\ Positions[i].kind # "statement"
                    /\ text = InPosition(i, OperandTexts[x] \o sep \o "==" \o sep
                                            \o OperandTexts[y]))
                   => /\ phase = "done"
                      /\ ast = <<NodeAround(Positions[i].kind,
                                            BinaryOp(OperandNodes[x], "==",
                                                     OperandNodes[y]))>>
            /\ text = "a" \o sep \o "=" \o sep \o OperandTexts[y] \o ";"
               => /\ phase = "done"
                  /\ ast = <<Assignment("a", OperandNodes[y])>>

\* C6: the stages begin in the fixed order; once the file is missing or a
\* stage raised, no later stage begins, no result is printed and the process
\* exits with status 1; when all stages succeed the result is printed once
\* and the process exits with status 0.
C6_PipelineAbortsOnFirstError ==
    /\ IsPrefix(started, Stages)
    /\ printed <= 1
    /\ raisedAt # "none" =>
           /\ printed = 0
           /\ IF raisedAt = "open" THEN started = <<>>
              ELSE started # <<>> /\ started[Len(started)] = raisedAt
           /\ pc \in {"raised", "main_except", "exited"}
           /\ pc = "exited" => exitStatus = 1
    /\ (pc = "exited" /\ raisedAt = "none" /\ started = Stages) =>
           printed = 1 /\ exitStatus = 0
    /\ exitStatus = 0 => started = Stages /\ raisedAt = "none" /\ printed = 1

C6_Witness_IRStageRaised ==
    pc = "exited" /\ raisedAt = "ir" /\ exitStatus = 1 /\ started = <<"lex", "parse", "ir">>

\* C7: when the body of a FunctionDef has been lowered, the block the
\* builder stands in gets a "return 0.0" if it has no terminator and is left
\* alone if it has one; either way it is terminated afterwards.
C7_DefaultReturnInLastBlock ==
    [][(pc = "ir" /\ node'.part = "FuncEnd") =>
          /\ pc' = "ir"
          /\ LET old == Blk(cg, cg.func, cg.builder.blk)
                 new == Blk(cg', cg.func, cg.builder.blk)
             IN  /\ IsTerminated(old) => new = old
                 /\ ~IsTerminated(old) =>
                        /\ Returns(new) /\ TerminatorOf(new).vals = <<ConstV(0)>>
                        /\ Len(new.instructions) = Len(old.instructions) + 1
                 /\ IsTerminated(new)]_vars

\* C8: after the statements of a then- or else-branch, the block the builder
\* stands in gets an unconditional branch to the merge block exactly when it
\* has no terminator yet.
C8_FallthroughIffUnterminated ==
    [][(pc = "ir" /\ node'.part \in {"IfThenEnd", "IfElseEnd"}) =>
          /\ pc' = "ir"
          /\ LET old == Blk(cg, cg.func, cg.builder.blk)
                 new == Blk(cg', cg.func, cg.builder.blk)
             IN  IF IsTerminated(old) THEN new = old
                 ELSE /\ BranchesTo(new, Top.merge_bb)
                      /\ Len(new.instructions) = Len(old.instructions) + 1]_vars

\* C9: If lowering puts a phi in the merge block exactly when both branches
\* gave a value and both fell through to the merge block; the phi has the two
\* pairs (then-value, then-block) and (else-value, else-block), each block
\* branching to the merge block; otherwise the If has no value and lowering
\* does not fail.
C9_PhiOnlyForFallthroughValues ==
    [][(pc = "ir" /\ node'.part = "IfElseEnd") =>
          /\ pc' = "ir"
          /\ LET fr == Top
                 merge == Blk(cg', cg.func, fr.merge_bb)
                 hasPhi == merge.instructions # <<>> /\ merge.instructions[1].op = "phi"
                 thenFalls == BranchesTo(Blk(cg', cg.func, fr.then_bb), fr.merge_bb)
                 elseFalls == BranchesTo(Blk(cg', cg.func, fr.else_bb), fr.merge_bb)
             IN  /\ hasPhi <=> (/\ fr.then_val # NoneV /\ fr.else_val # NoneV
                                /\ thenFalls /\ elseFalls)
                 /\ hasPhi => /\ merge.instructions[1].vals = <<fr.then_val, fr.else_val>>
                              /\ merge.instructions[1].tgts = <<fr.then_bb, fr.else_bb>>
                              /\ val' = InstV(merge.instructions[1].id)
                 /\ ~hasPhi => val' = NoneV]_vars

\* C10: a While in a function body, entered in a block without terminator,
\* makes three new blocks, ends the entry block with a branch to the
\* condition block and the condition block with a conditional branch to body
\* and end; after the body, the block body lowering finished in ends with one
\* terminator, a branch to the condition block, the builder stands in the end
\* block and the loop has no value.
C10_WhileShape ==
    [][/\ (/\ pc = "ir" /\ cg.func # 0 /\ node'.part = "WhileBegin"
           /\ ~IsTerminated(Blk(cg, cg.func, cg.builder.blk))) =>
              /\ pc' = "ir"
              /\ NumBlocks(cg') = NumBlocks(cg) + 3
              /\ BranchesTo(Blk(cg', cg.func, cg.builder.blk), NumBlocks(cg) + 1)
              /\ LET cnd == Blk(cg', cg.func, NumBlocks(cg) + 1)
                 IN  /\ IsTerminated(cnd) /\ TerminatorCount(cnd) = 1
                     /\ TerminatorOf(cnd).op = "cbr"
                     /\ TerminatorOf(cnd).tgts = <<NumBlocks(cg) + 2, NumBlocks(cg) + 3>>
              /\ cg'.builder.blk = NumBlocks(cg) + 2
       /\ (pc = "ir" /\ node'.part = "WhileEnd") =>
              /\ pc' = "ir"
              /\ BranchesTo(Blk(cg', cg.func, cg.builder.blk), Top.cond_bb)
              /\ TerminatorCount(Blk(cg', cg.func, cg.builder.blk)) = 1
              /\ cg'.builder.blk = Top.end_bb
              /\ val' = NoneV]_vars

\* Every binding of the variable map is a slot of the current function: an
\* alloca for that name in its entry block.
OwnSlotsOnly(c) ==
    \A n \in VarNames :
        c.variables[n] # 0 =>
            \E i \in DOMAIN c.funcs[c.func].blocks[1].instructions :
                LET ins == c.funcs[c.func].blocks[1].instructions[i]
                IN  ins.op = "alloca" /\ ins.id = c.variables[n] /\ ins.name = n

\* The names bound in the variable map.
BoundNames(c) == {n \in VarNames : c.variables[n] # 0}

NestedDefRestored ==
    /\ pc = "ir" /\ node.part = "FuncEnd" /\ stack # <<>>
    /\ cg.func # 0 /\ BoundNames(cg) # {}

\* The slot allocations of function f: block and place of every alloca.
Allocas(c, f) ==
    UNION {{<<b, i>> : i \in {j \in DOMAIN Blk(c, f, b).instructions :
                                 Blk(c, f, b).instructions[j].op = "alloca"}} :
           b \in DOMAIN c.funcs[f].blocks}

\* One slot per name: the current function holds as many allocations as the
\* variable map binds names.
OneSlotPerName(c) == Cardinality(Allocas(c, c.func)) = Cardinality(BoundNames(c))

\* Every allocation of function f is in its entry block, and no instruction
\* of another kind comes before it there.
AllocasLeadEntry(c, f) ==
    /\ \A p \in Allocas(c, f) : p[1] = 1
    /\ \A i, j \in DOMAIN Blk(c, f, 1).instructions :
           (i < j /\ Blk(c, f, 1).instructions[j].op = "alloca") =>
               Blk(c, f, 1).instructions[i].op = "alloca"

\* C12: in every function and after any sequence of lowered statements each
\* bound name (parameter or assigned local) has exactly one slot: the
\* function's allocations are as many as its bound names (so an assignment
\* to a bound name, however often it is lowered, allocates nothing), and
\* every allocation is in the entry block ahead of every other instruction.
C12_OneSlotPerNameAtEntry ==
    /\ (pc = "ir" /\ cg.func # 0) => OneSlotPerName(cg)
    /\ \A f \in DOMAIN cg.funcs : AllocasLeadEntry(cg, f)

\* The count alone: the current function has as many slots as bound names.
AsManySlotsAsNames ==
    (pc = "ir" /\ cg.func # 0) => OneSlotPerName(cg)

\* The allocation alone: a step that lowers into the same function and binds
\* no new name adds no allocation.
ReassignmentAllocatesNothing ==
    [][(pc = "ir" /\ pc' = "ir" /\ cg.func # 0 /\ cg'.func = cg.func
        /\ BoundNames(cg') = BoundNames(cg)) =>
           Cardinality(Allocas(cg', cg.func)) = Cardinality(Allocas(cg, cg.func))]_vars

====
